---- MODULE Spec2Model ----
(***************************************************************************)
(* The client-side state core of the EcoRatings admin console: the Redux   *)
(* store (products and orders slices), the async thunks that talk to the   *)
(* simulated backend, the localStorage persistence bridge and the page     *)
(* effects that decide whether to fetch the seed data.                     *)
(*                                                                         *)
(* Money is counted in tenths of a cent, timestamps in clock readings      *)
(* (Date.now() with the granularity of the clock).                         *)
(***************************************************************************)
EXTENDS Integers, Sequences, FiniteSets, Bags, TLC

\* ------------------------------------------------------------------ bounds
MaxClock == 2
MaxOps == 3
MaxInFlight == 2
MaxProductOps == 4
MaxOrderOps == 5
MaxRows == 3
MaxListOps == 2

\* ------------------------------------------------------------- seed data
null == "null"

SeedProducts ==
  << [id |-> 1, name |-> "Tea", price |-> 1990, status |-> "Active",
      createdAt |-> 0, updatedAt |-> 0],
     [id |-> 2, name |-> "Mug", price |-> 4500, status |-> "Inactive",
      createdAt |-> 0, updatedAt |-> 0] >>

SeedOrders ==
  << [id |-> 11, customerName |-> "Ada",
      items |-> << [productId |-> 1, name |-> "Tea", price |-> 1990, quantity |-> 2] >>,
      total |-> 3980, status |-> "Pending", createdAt |-> 0],
     [id |-> 12, customerName |-> "Bob",
      items |-> << [productId |-> 2, name |-> "Mug", price |-> 4500, quantity |-> 1] >>,
      total |-> 4500, status |-> "Completed", createdAt |-> 0] >>

\* What the operator can type into the product form: two inputs that pass
\* every check (the second at the edge of stock and rating) and one input per
\* check that fails it. Ratings are counted in tenths.
FormInputs ==
  { [name |-> "Pot", price |-> 2500, stock |-> 5, category |-> "Kitchen",
     status |-> "Active", rating |-> 40],
    [name |-> "Tea", price |-> 1500, stock |-> 0, category |-> "Drinks",
     status |-> "Inactive", rating |-> 50],
    [name |-> "Po", price |-> 2500, stock |-> 5, category |-> "Kitchen",
     status |-> "Active", rating |-> 40],
    [name |-> "Jar", price |-> 0, stock |-> 5, category |-> "Kitchen",
     status |-> "Active", rating |-> 40],
    [name |-> "Cup", price |-> 2500, stock |-> -1, category |-> "Kitchen",
     status |-> "Active", rating |-> 40],
    [name |-> "Pan", price |-> 2500, stock |-> 5, category |-> "",
     status |-> "Active", rating |-> 40],
    [name |-> "Lid", price |-> 2500, stock |-> 5, category |-> "Kitchen",
     status |-> "Active", rating |-> 9],
    [name |-> "Urn", price |-> 2500, stock |-> 5, category |-> "Kitchen",
     status |-> "Active", rating |-> 51] }

\* String.prototype.length on the names the form can hold
length(name) == IF name = "" THEN 0 ELSE IF name = "Po" THEN 2 ELSE 3

\* A validation that forgets the rating (used to test C22).
validationErrorWithoutRating(productData) ==
  IF length(productData.name) < 3 THEN "Name must be at least 3 characters"
  ELSE IF productData.price <= 0 THEN "Price must be greater than 0"
  ELSE IF productData.stock < 0 THEN "Stock must be 0 or greater"
  ELSE IF productData.category = "" THEN "Category is required"
  ELSE null

\* handleSubmit's checks: the alert it raises, null when the data passes
validationError(productData) ==
  IF length(productData.name) < 3 THEN "Name must be at least 3 characters"
  ELSE IF productData.price <= 0 THEN "Price must be greater than 0"
  ELSE IF productData.stock < 0 THEN "Stock must be 0 or greater"
  ELSE IF productData.category = "" THEN "Category is required"
  ELSE IF productData.rating < 10 \/ productData.rating > 50
  THEN "Rating must be between 1 and 5"
  ELSE null

\* The fields of productData that the store's records keep in this model.
Submitted(productData) ==
  [name |-> productData.name, price |-> productData.price,
   status |-> productData.status]

\* What the product form can submit (name, price, status survive validation).
ProductForms ==
  {Submitted(productData) : productData \in {d \in FormInputs : validationError(d) = null}}

Views == {"Dashboard", "Products", "Orders"}

\* ------------------------------------------------------------------ state
VARIABLES
  products,      \* store.products: [items, loading, error]
  orders,        \* store.orders:   [items, loading, error]
  storage,       \* localStorage['reduxState']: <<>> when absent, <<text>> when set
  storageFull,   \* localStorage.setItem throws (quota exceeded)
  inflight,      \* bag of thunks suspended in the backend's randomDelay
  view,          \* the page mounted by the router, "none" before the first render
  cart,          \* Orders page: CartItem[]
  customerName,  \* Orders page: the customer-name field
  clock,         \* Date.now()
  list,          \* Products page: search, filters, sort and the current page
  ops            \* gestures the operator may still make (bounds the run)

vars == << products, orders, storage, storageFull, inflight, view, cart,
           customerName, clock, list, ops >>

\* -------------------------------------------------------- sequence helpers
RECURSIVE findIndex(_, _, _)
\* Array.prototype.findIndex on the id, 1-based; 0 stands for -1.
findIndex(items, id, i) ==
  IF i > Len(items) THEN 0
  ELSE IF items[i].id = id THEN i
  ELSE findIndex(items, id, i + 1)

IndexOf(items, id) == findIndex(items, id, 1)

\* Array.prototype.splice(index, 1)
splice(items, index) ==
  [i \in 1..(Len(items) - 1) |-> IF i < index THEN items[i] ELSE items[i + 1]]

Ids(items) == {items[i].id : i \in 1..Len(items)}

\* new Date().toISOString() / Date.now().toString(): session ids are far from seed ids
Now == clock
NewId == 100 + clock

\* ------------------------------------------------------- slice reducers
initialState == [items |-> <<>>, loading |-> FALSE, error |-> null]

fetchPending(state) == [state EXCEPT !.loading = TRUE, !.error = null]

\* A fulfilled fetch that forgets to clear the loading flag (used to test C16).
fetchFulfilledStillLoading(state, payload) == [state EXCEPT !.items = payload]

fetchFulfilled(state, payload) == [state EXCEPT !.loading = FALSE, !.items = payload]

fetchRejected(state, message) == [state EXCEPT !.loading = FALSE, !.error = message]

createFulfilled(state, payload) == [state EXCEPT !.items = Append(@, payload)]

\* An update that appends the record when its id is not listed (used to test
\* C17).
updateFulfilledOrAppended(state, payload) ==
  LET index == IndexOf(state.items, payload.id)
  IN IF index # 0 THEN [state EXCEPT !.items[index] = payload]
     ELSE [state EXCEPT !.items = Append(@, payload)]

updateFulfilled(state, payload) ==
  LET index == IndexOf(state.items, payload.id)
  IN IF index # 0 THEN [state EXCEPT !.items[index] = payload] ELSE state

\* A toggle that leaves updatedAt as it was (used to test C21).
toggleProductStatusKeepingUpdatedAt(state, id) ==
  LET index == IndexOf(state.items, id)
  IN IF index # 0
     THEN [state EXCEPT
             !.items[index].status = IF @ = "Active" THEN "Inactive" ELSE "Active"]
     ELSE state

toggleProductStatus(state, id) ==
  LET index == IndexOf(state.items, id)
  IN IF index # 0
     THEN [state EXCEPT
             !.items[index].status = IF @ = "Active" THEN "Inactive" ELSE "Active",
             !.items[index].updatedAt = Now]
     ELSE state

\* A rejection that leaves the slice as it is (used to test C14).
updateOrderStatusRejectedSilently(state, message) == state

\* The payload creator of deleteProduct reads the status after the backend call.
deleteProductPayload(state, id) ==
  LET index == IndexOf(state.items, id)
  IN [id |-> id,
      currentStatus |-> IF index # 0 THEN state.items[index].status ELSE "undefined"]

deleteProductFulfilled(state, payload) ==
  LET productIndex == IndexOf(state.items, payload.id)
  IN IF productIndex = 0 THEN state
     ELSE IF payload.currentStatus = "Active"
     THEN [state EXCEPT !.items[productIndex].status = "Inactive",
                        !.items[productIndex].updatedAt = Now]
     ELSE [state EXCEPT !.items = splice(@, productIndex)]

updateOrderStatusRejected(state, message) == [state EXCEPT !.error = message]

\* ------------------------------------------------------ simulated backend
productsAPIcreate(form) ==
  [id |-> NewId, name |-> form.name, price |-> form.price, status |-> form.status,
   createdAt |-> Now, updatedAt |-> Now]

\* update looks the record up among the seed copies only
productsAPIupdate(id, form) ==
  LET index == IndexOf(SeedProducts, id)
  IN IF index = 0 THEN [ok |-> FALSE, message |-> "Product not found"]
     ELSE [ok |-> TRUE,
           value |-> [SeedProducts[index] EXCEPT !.name = form.name,
                        !.price = form.price, !.status = form.status,
                        !.updatedAt = Now]]

ordersAPIcreate(order) ==
  [id |-> NewId, customerName |-> order.customerName, items |-> order.items,
   total |-> order.total, status |-> order.status, createdAt |-> Now]

ordersAPIupdate(id, status) ==
  LET index == IndexOf(SeedOrders, id)
  IN IF index = 0 THEN [ok |-> FALSE, message |-> "Order not found"]
     ELSE [ok |-> TRUE, value |-> [SeedOrders[index] EXCEPT !.status = status]]

\* A payload creator without the in-memory fallback (used to test C13).
updateOrderStatusSeedOnly(state, id, status) == ordersAPIupdate(id, status)

\* The payload creator of updateOrderStatus: backend first, memory as fallback.
updateOrderStatusPayload(state, id, status) ==
  LET r == ordersAPIupdate(id, status)
      index == IndexOf(state.items, id)
  IN IF r.ok THEN r
     ELSE IF index = 0 THEN [ok |-> FALSE, message |-> "Order not found"]
     ELSE [ok |-> TRUE, value |-> [state.items[index] EXCEPT !.status = status]]

\* ------------------------------------------------- the list hooks
\* The page shows PageSize rows at a time (the Products page passes 10).
PageSize == 2

\* Strings that are searched are sequences of one-character strings.
\* String.prototype.toLowerCase
lowerCase(c) ==
  CASE c = "A" -> "a" [] c = "E" -> "e" [] c = "G" -> "g" [] c = "M" -> "m"
    [] c = "O" -> "o" [] c = "P" -> "p" [] c = "T" -> "t" [] c = "U" -> "u"
    [] OTHER -> c

toLowerCase(str) == [i \in 1..Len(str) |-> lowerCase(str[i])]

\* String.prototype.includes
includes(str, searchString) ==
  \E i \in 0..(Len(str) - Len(searchString)) :
    SubSeq(str, i + 1, i + Len(searchString)) = searchString

\* What JavaScript takes for false among the values a filter option can hold:
\* undefined and the empty string (a search string is empty when it has no
\* characters).
falsy(value) == value \in {null, ""}

\* A filter that matches the search case-sensitively (used to test C26).
useFiltersCaseSensitive(items, filters) ==
  SelectSeq(items, LAMBDA product :
    /\ filters.search # <<>> => includes(product.name, filters.search)
    /\ (~falsy(filters.category) /\ filters.category # "All")
         => product.category = filters.category
    /\ (~falsy(filters.status) /\ filters.status # "All")
         => product.status = filters.status)

\* A filter that takes "All" for a status like any other (used to test C25).
useFiltersWithoutSentinel(items, filters) ==
  SelectSeq(items, LAMBDA product :
    /\ filters.search # <<>>
         => includes(toLowerCase(product.name), toLowerCase(filters.search))
    /\ (~falsy(filters.category) /\ filters.category # "All")
         => product.category = filters.category
    /\ ~falsy(filters.status) => product.status = filters.status)

useFilters(items, filters) ==
  SelectSeq(items, LAMBDA product :
    /\ filters.search # <<>>
         => includes(toLowerCase(product.name), toLowerCase(filters.search))
    /\ (~falsy(filters.category) /\ filters.category # "All")
         => product.category = filters.category
    /\ (~falsy(filters.status) /\ filters.status # "All")
         => product.status = filters.status)

\* A comparator that lets the direction turn the nulls round as well (used to
\* test C27).
compareNullsByDirection(a, b, sortOptions) ==
  LET aNull == sortOptions.field \notin DOMAIN a
      bNull == sortOptions.field \notin DOMAIN b
      up == IF sortOptions.direction = "asc" THEN 1 ELSE -1
  IN IF aNull /\ bNull THEN 0
     ELSE IF aNull THEN up
     ELSE IF bNull THEN -up
     ELSE IF a[sortOptions.field] < b[sortOptions.field] THEN -up
     ELSE IF a[sortOptions.field] > b[sortOptions.field] THEN up
     ELSE 0

\* new Date(value).getTime() of a date string. A date string is a number in
\* the model: n below 100 is the text toISOString() gives for the instant n,
\* and 100 + n is another text of the same instant (one written without the
\* milliseconds, say). Every date string of the model is a valid date.
getTime(value) == IF value >= 100 THEN value - 100 ELSE value

\* typeof aValue === 'string' && typeof bValue === 'string', by the field's
\* type in Product
DateFields == {"createdAt", "updatedAt"}

\* A comparator that sorts ascending whatever the direction (used to test
\* C32).
compareAscending(a, b, sortOptions) ==
  LET aNull == sortOptions.field \notin DOMAIN a
      bNull == sortOptions.field \notin DOMAIN b
      aDate == getTime(a[sortOptions.field])
      bDate == getTime(b[sortOptions.field])
  IN IF aNull /\ bNull THEN 0
     ELSE IF aNull THEN 1
     ELSE IF bNull THEN -1
     ELSE IF sortOptions.field \in DateFields
          THEN (IF aDate < bDate THEN -1 ELSE IF aDate > bDate THEN 1 ELSE 0)
     ELSE IF a[sortOptions.field] < b[sortOptions.field] THEN -1
     ELSE IF a[sortOptions.field] > b[sortOptions.field] THEN 1
     ELSE 0

\* useSort's comparator. A value that is null or undefined is a field the row
\* does not have. Two date strings are compared by their instants, anything
\* else by its value.
compare(a, b, sortOptions) ==
  LET aNull == sortOptions.field \notin DOMAIN a
      bNull == sortOptions.field \notin DOMAIN b
      aValue == a[sortOptions.field]
      bValue == b[sortOptions.field]
      aDate == getTime(aValue)
      bDate == getTime(bValue)
  IN IF aNull /\ bNull THEN 0
     ELSE IF aNull THEN 1
     ELSE IF bNull THEN -1
     ELSE IF sortOptions.field \in DateFields
          THEN (IF aDate < bDate THEN (IF sortOptions.direction = "asc" THEN -1 ELSE 1)
                ELSE IF aDate > bDate THEN (IF sortOptions.direction = "asc" THEN 1 ELSE -1)
                ELSE 0)
     ELSE IF aValue < bValue THEN (IF sortOptions.direction = "asc" THEN -1 ELSE 1)
     ELSE IF aValue > bValue THEN (IF sortOptions.direction = "asc" THEN 1 ELSE -1)
     ELSE 0

\* Array.prototype.sort is stable: an element goes after the last element that
\* the comparator does not put behind it.
RECURSIVE insertSorted(_, _, _, _)
insertSorted(sorted, x, sortOptions, i) ==
  IF i = 0 \/ compare(sorted[i], x, sortOptions) <= 0
  THEN SubSeq(sorted, 1, i) \o << x >> \o SubSeq(sorted, i + 1, Len(sorted))
  ELSE insertSorted(sorted, x, sortOptions, i - 1)

RECURSIVE sortFirst(_, _, _)
sortFirst(data, n, sortOptions) ==
  IF n = 0 THEN <<>>
  ELSE LET sorted == sortFirst(data, n - 1, sortOptions)
       IN insertSorted(sorted, data[n], sortOptions, Len(sorted))

useSort(data, sortOptions) ==
  IF sortOptions.field = null THEN data ELSE sortFirst(data, Len(data), sortOptions)

\* Math.ceil(data.length / pageSize)
totalPages(data, pageSize) == (Len(data) + pageSize - 1) \div pageSize

min(a, b) == IF a < b THEN a ELSE b
max(a, b) == IF a > b THEN a ELSE b

\* A goToPage that takes the page as given (used to test C28).
goToPageUnclamped(page, total) == page

goToPage(page, total) == max(1, min(page, total))

nextPage(currentPage, total) == IF currentPage < total THEN currentPage + 1 ELSE currentPage

prevPage(currentPage) == IF currentPage > 1 THEN currentPage - 1 ELSE currentPage

\* "Reset to page 1 when data changes". The memo runs when data.length or
\* totalPages changes; when neither changes its condition has the value it had,
\* so running it on every render gives the same page.
resetMemo(currentPage, total) ==
  IF currentPage > total /\ total > 0 THEN 1 ELSE currentPage

\* A slice that starts one page too far (used to test C33).
paginatedDataOfNextPage(data, currentPage, pageSize) ==
  LET startIndex == currentPage * pageSize
      endIndex == startIndex + pageSize
  IN SubSeq(data, startIndex + 1, IF endIndex < Len(data) THEN endIndex ELSE Len(data))

\* data.slice(startIndex, endIndex)
paginatedData(data, currentPage, pageSize) ==
  LET startIndex == (currentPage - 1) * pageSize
      endIndex == startIndex + pageSize
  IN SubSeq(data, startIndex + 1, min(endIndex, Len(data)))

hasNextPage(currentPage, total) == currentPage < total
hasPrevPage(currentPage) == currentPage > 1

\* The Products page's useState defaults.
initialList ==
  [search |-> <<>>, categoryFilter |-> "All", statusFilter |-> "All",
   sortField |-> null, sortDirection |-> "asc", currentPage |-> 1]

\* filteredProducts, then sortedProducts, of the Products page
sortedProducts(items, l) ==
  useSort(useFilters(items, [search |-> l.search, category |-> l.categoryFilter,
                             status |-> l.statusFilter]),
          [field |-> l.sortField, direction |-> l.sortDirection])

\* A render of the Products page over the store's products: the pagination
\* hook recomputes totalPages and its reset memo sets the page.
render(l, items) ==
  [l EXCEPT !.currentPage =
     resetMemo(@, totalPages(sortedProducts(items, l), PageSize))]

\* ----------------------------------------------------- persistence bridge
RootState(p, o) == [products |-> p, orders |-> o]

\* A text that forgets the orders (used to test C6).
stateToPersistProductsOnly(state) ==
  [products |-> [items |-> state.products.items]]

\* A text that holds the slices whole, flags included (used to test C7).
stateToPersistWholeSlices(state) ==
  [products |-> state.products, orders |-> state.orders]

\* JSON.stringify(stateToPersist): the text holds the two items arrays only
stateToPersist(state) ==
  [products |-> [items |-> state.products.items],
   orders |-> [items |-> state.orders.items]]

\* saveState: the text replaces the key's content unless setItem throws
saveState(state, old) ==
  IF storageFull THEN old ELSE << stateToPersist(state) >>

persistedItems(text, slice) ==
  IF slice \in DOMAIN text /\ "items" \in DOMAIN text[slice]
  THEN text[slice].items ELSE <<>>

\* A load that restores the products and forgets the orders (used to test C9).
loadStateProductsOnly(sto) ==
  IF sto = <<>>
  THEN RootState(initialState, initialState)
  ELSE RootState(
         [items |-> persistedItems(sto[1], "products"), loading |-> FALSE, error |-> null],
         initialState)

\* loadState: undefined (the reducers' initial state) when the key is absent or
\* its content does not parse
loadState(sto) ==
  IF sto = <<>> \/ "garbage" \in DOMAIN sto[1]
  THEN RootState(initialState, initialState)
  ELSE RootState(
         [items |-> persistedItems(sto[1], "products"), loading |-> FALSE, error |-> null],
         [items |-> persistedItems(sto[1], "orders"), loading |-> FALSE, error |-> null])

\* A presence test that wants persisted items, not just the key (used to test C8).
hasPersistedItems(sto) ==
  /\ sto # <<>>
  /\ \/ persistedItems(sto[1], "products") # <<>>
     \/ persistedItems(sto[1], "orders") # <<>>

hasPersistedState(sto) == sto # <<>>

\* ------------------------------------------------------------ page effects
Request(r) == SetToBag({r})

FetchesProducts(v) == v \in {"Dashboard", "Products", "Orders"}
\* Only the Orders page asks for the orders (used to test C10).
FetchesOrdersOnOrdersPage(v) == v = "Orders"

FetchesOrders(v) == v \in {"Dashboard", "Orders"}

\* The useEffect of page v: hasPersisted is read once, before either dispatch;
\* each dispatch (the thunk's pending action) reaches the reducer and the subscriber.
Effect(v, p, o, sto, fl) ==
  LET hasPersisted == hasPersistedState(sto)
      wantP == FetchesProducts(v) /\ Len(p.items) = 0 /\ ~hasPersisted
      wantO == FetchesOrders(v) /\ Len(o.items) = 0 /\ ~hasPersisted
      p1 == IF wantP THEN fetchPending(p) ELSE p
      sto1 == IF wantP THEN saveState(RootState(p1, o), sto) ELSE sto
      o1 == IF wantO THEN fetchPending(o) ELSE o
      sto2 == IF wantO THEN saveState(RootState(p1, o1), sto1) ELSE sto1
      fl1 == IF wantP THEN fl (+) Request([kind |-> "fetchProducts"]) ELSE fl
      fl2 == IF wantO THEN fl1 (+) Request([kind |-> "fetchOrders"]) ELSE fl1
  IN [products |-> p1, orders |-> o1, storage |-> sto2, inflight |-> fl2]

\* The effect's dependency list: it runs again when a length it names changes.
DepsChanged(v, p, o) ==
  \/ FetchesProducts(v) /\ Len(p.items) # Len(products.items)
  \/ FetchesOrders(v) /\ Len(o.items) # Len(orders.items)

\* A commit that couples the orders to the live products: an order goes when a
\* product on one of its lines is no longer listed (used to test C24).
CommitCascading(p, o, fl) ==
  LET listed(order) ==
        \A k \in 1..Len(order.items) : order.items[k].productId \in Ids(p.items)
      q == IF Len(p.items) < Len(products.items)
           THEN [o EXCEPT !.items = SelectSeq(@, listed)] ELSE o
      sto == saveState(RootState(p, q), storage)
      e == IF view # "none" /\ DepsChanged(view, p, q)
           THEN Effect(view, p, q, sto, fl)
           ELSE [products |-> p, orders |-> q, storage |-> sto, inflight |-> fl]
  IN /\ products' = e.products
     /\ orders' = e.orders
     /\ storage' = e.storage
     /\ inflight' = e.inflight
     /\ list' = render(list, e.products.items)

\* A commit that records a failed write as the products slice's error (used to
\* test C12).
CommitRecordingWriteError(p, o, fl) ==
  LET sto == saveState(RootState(p, o), storage)
      q == IF storageFull THEN [p EXCEPT !.error = "Error saving state"] ELSE p
      e == IF view # "none" /\ DepsChanged(view, q, o)
           THEN Effect(view, q, o, sto, fl)
           ELSE [products |-> q, orders |-> o, storage |-> sto, inflight |-> fl]
  IN /\ products' = e.products
     /\ orders' = e.orders
     /\ storage' = e.storage
     /\ inflight' = e.inflight
     /\ list' = render(list, e.products.items)

\* A dispatched action has produced slices p and o: the subscriber saves the state,
\* the mounted page renders again and its effect runs if its dependencies changed.
Commit(p, o, fl) ==
  LET sto == saveState(RootState(p, o), storage)
      e == IF view # "none" /\ DepsChanged(view, p, o)
           THEN Effect(view, p, o, sto, fl)
           ELSE [products |-> p, orders |-> o, storage |-> sto, inflight |-> fl]
  IN /\ products' = e.products
     /\ orders' = e.orders
     /\ storage' = e.storage
     /\ inflight' = e.inflight
     /\ list' = render(list, e.products.items)

\* The model holds at most MaxInFlight suspended thunks.
CanDispatch == BagCardinality(inflight) < MaxInFlight

\* One more gesture of the operator (a click, a submitted form, a typed name).
Gesture == ops > 0 /\ ops' = ops - 1

\* ------------------------------------------------------------------- Init
Construct ==
  /\ products = initialState
  /\ orders = initialState
  /\ storage = <<>>
  /\ inflight = EmptyBag
  /\ view = "none"
  /\ cart = <<>>
  /\ customerName = ""
  /\ clock = 1
  /\ list = initialList

Init == Construct /\ storageFull \in BOOLEAN /\ ops = MaxOps

\* ---------------------------------------------------------------- actions
Tick ==
  /\ clock < MaxClock
  /\ clock' = clock + 1
  /\ UNCHANGED << ops, products, orders, storage, storageFull, list, inflight, view, cart,
                  customerName >>

\* The router mounts page v: the page's local state starts fresh, its effect runs.
\* A createOrder still in flight belongs to the unmounted Orders instance.
Detach(fl) ==
  LET rs == BagToSet(fl)
      moved(r) == IF r.kind = "createOrder" THEN [r EXCEPT !.attached = FALSE] ELSE r
  IN [s \in {moved(r) : r \in rs} |->
        LET src == {r \in rs : moved(r) = s}
        IN BagCardinality([r \in src |-> fl[r]])]

Mount(v) ==
  /\ v # view
  /\ LET e == Effect(v, products, orders, storage, Detach(inflight))
     IN /\ BagCardinality(e.inflight) <= MaxInFlight
        /\ products' = e.products
        /\ orders' = e.orders
        /\ storage' = e.storage
        /\ inflight' = e.inflight
  /\ view' = v
  /\ cart' = <<>>
  /\ list' = initialList
  /\ customerName' = ""
  /\ UNCHANGED << ops, storageFull, clock >>

\* The page is reloaded: the store is rebuilt from loadState(), every suspended
\* thunk and all page state are gone.
Restart ==
  /\ view # "none"
  /\ LET s == loadState(storage)
     IN /\ products' = s.products
        /\ orders' = s.orders
  /\ inflight' = EmptyBag
  /\ view' = "none"
  /\ cart' = <<>>
  /\ list' = initialList
  /\ customerName' = ""
  /\ UNCHANGED << ops, storage, storageFull, clock >>

FetchProductsFulfilled ==
  LET r == [kind |-> "fetchProducts"]
  IN /\ BagIn(r, inflight)
     /\ Commit(fetchFulfilled(products, SeedProducts), orders, inflight (-) Request(r))
     /\ UNCHANGED << ops, storageFull, view, cart, customerName, clock >>

FetchOrdersFulfilled ==
  LET r == [kind |-> "fetchOrders"]
  IN /\ BagIn(r, inflight)
     /\ Commit(products, fetchFulfilled(orders, SeedOrders), inflight (-) Request(r))
     /\ UNCHANGED << ops, storageFull, view, cart, customerName, clock >>

\* Products page: the status button of a row (the table is rendered only
\* while the slice is not loading)
ToggleStatus(id) ==
  /\ Gesture
  /\ view = "Products"
  /\ ~products.loading
  /\ id \in Ids(products.items)
  /\ Commit(toggleProductStatus(products, id), orders, inflight)
  /\ UNCHANGED << storageFull, view, cart, customerName, clock >>

\* Products page: handleDelete, confirmed by the operator; isActive is the status
\* of the product the page finds under the id at the click
DeleteDispatch(id) ==
  /\ Gesture
  /\ CanDispatch
  /\ view = "Products"
  /\ ~products.loading
  /\ IndexOf(products.items, id) # 0
  /\ LET isActive == products.items[IndexOf(products.items, id)].status = "Active"
     IN Commit(products, orders,
               inflight (+) Request([kind |-> "deleteProduct", id |-> id,
                                     isActive |-> isActive]))
  /\ UNCHANGED << storageFull, view, cart, customerName, clock >>

DeleteResolve(r) ==
  /\ BagIn(r, inflight)
  /\ r.kind = "deleteProduct"
  /\ Commit(deleteProductFulfilled(products, deleteProductPayload(products, r.id)),
            orders, inflight (-) Request(r))
  /\ UNCHANGED << ops, storageFull, view, cart, customerName, clock >>

\* Products page: handleSubmit of the create form, after validation
CreateProductDispatch(form) ==
  /\ Gesture
  /\ CanDispatch
  /\ view = "Products"
  /\ Commit(products, orders,
            inflight (+) Request([kind |-> "createProduct", form |-> form]))
  /\ UNCHANGED << storageFull, view, cart, customerName, clock >>

CreateProductResolve(r) ==
  /\ BagIn(r, inflight)
  /\ r.kind = "createProduct"
  /\ Commit(createFulfilled(products, productsAPIcreate(r.form)), orders,
            inflight (-) Request(r))
  /\ UNCHANGED << ops, storageFull, view, cart, customerName, clock >>

\* Products page: handleSubmit of the edit form for a listed product
UpdateProductDispatch(id, form) ==
  /\ Gesture
  /\ CanDispatch
  /\ view = "Products"
  /\ ~products.loading
  /\ id \in Ids(products.items)
  /\ Commit(products, orders,
            inflight (+) Request([kind |-> "updateProduct", id |-> id, form |-> form]))
  /\ UNCHANGED << storageFull, view, cart, customerName, clock >>

\* fulfilled with the backend's record, or rejected (no reducer case) when the
\* backend does not know the id
UpdateProductResolve(r) ==
  /\ BagIn(r, inflight)
  /\ r.kind = "updateProduct"
  /\ LET res == productsAPIupdate(r.id, r.form)
     IN Commit(IF res.ok THEN updateFulfilled(products, res.value) ELSE products,
               orders, inflight (-) Request(r))
  /\ UNCHANGED << ops, storageFull, view, cart, customerName, clock >>

\* ----------------------------------------------------------- Orders page
activeProducts == SelectSeq(products.items, LAMBDA p : p.status = "Active")

RECURSIVE cartFind(_, _, _)
cartFind(c, id, i) ==
  IF i > Len(c) THEN 0
  ELSE IF c[i].product.id = id THEN i
  ELSE cartFind(c, id, i + 1)

\* An addToCart that appends a line every time (used to test C35).
addToCartAppending(prev, product) ==
  Append(prev, [product |-> product, quantity |-> 1])

addToCart(prev, product) ==
  IF cartFind(prev, product.id, 1) # 0
  THEN [i \in 1..Len(prev) |->
          IF prev[i].product.id = product.id
          THEN [prev[i] EXCEPT !.quantity = @ + 1] ELSE prev[i]]
  ELSE Append(prev, [product |-> product, quantity |-> 1])

\* An updateQuantity that writes any quantity into the line (used to test
\* C34).
updateQuantityWithoutRemoval(prev, productId, quantity) ==
  [i \in 1..Len(prev) |->
     IF prev[i].product.id = productId
     THEN [prev[i] EXCEPT !.quantity = quantity] ELSE prev[i]]

updateQuantity(prev, productId, quantity) ==
  IF quantity <= 0
  THEN SelectSeq(prev, LAMBDA item : item.product.id # productId)
  ELSE [i \in 1..Len(prev) |->
          IF prev[i].product.id = productId
          THEN [prev[i] EXCEPT !.quantity = quantity] ELSE prev[i]]

removeFromCart(prev, productId) ==
  SelectSeq(prev, LAMBDA item : item.product.id # productId)

RECURSIVE cartReduce(_, _)
\* cart.reduce((sum, item) => sum + item.product.price * item.quantity, 0)
cartReduce(c, i) ==
  IF i = 0 THEN 0 ELSE cartReduce(c, i - 1) + c[i].product.price * c[i].quantity

\* A cart total that forgets the quantities (used to test C4).
cartTotalOfUnitPrices(c) ==
  cartReduce([i \in 1..Len(c) |-> [c[i] EXCEPT !.quantity = 1]], Len(c))

cartTotal(c) == cartReduce(c, Len(c))

\* Order lines that forget the quantities (used to test C23).
orderItemsOfSingleUnits(c) ==
  [i \in 1..Len(c) |->
     [productId |-> c[i].product.id, name |-> c[i].product.name,
      price |-> c[i].product.price, quantity |-> 1]]

orderItems(c) ==
  [i \in 1..Len(c) |->
     [productId |-> c[i].product.id, name |-> c[i].product.name,
      price |-> c[i].product.price, quantity |-> c[i].quantity]]

\* String.prototype.trim on the names the field can hold
CustomerNames == {"", " ", "Ada "}
trim(name) == IF name \in {"Ada ", "Ada"} THEN "Ada" ELSE ""

\* The cart keeps of a product what an order line uses of it.
Snapshot(p) == [id |-> p.id, name |-> p.name, price |-> p.price]

AddToCart(i) ==
  /\ Gesture
  /\ view = "Orders"
  /\ i \in 1..Len(activeProducts)
  /\ cart' = addToCart(cart, Snapshot(activeProducts[i]))
  /\ UNCHANGED << products, orders, storage, storageFull, list, inflight, view,
                  customerName, clock >>

\* the - and + buttons of a cart line
UpdateQuantity(k, delta) ==
  /\ Gesture
  /\ view = "Orders"
  /\ k \in 1..Len(cart)
  /\ cart' = updateQuantity(cart, cart[k].product.id, cart[k].quantity + delta)
  /\ UNCHANGED << products, orders, storage, storageFull, list, inflight, view,
                  customerName, clock >>

RemoveFromCart(k) ==
  /\ Gesture
  /\ view = "Orders"
  /\ k \in 1..Len(cart)
  /\ cart' = removeFromCart(cart, cart[k].product.id)
  /\ UNCHANGED << products, orders, storage, storageFull, list, inflight, view, clock,
                  customerName >>

SetCustomerName(name) ==
  /\ Gesture
  /\ view = "Orders"
  /\ name # customerName
  /\ customerName' = name
  /\ UNCHANGED << products, orders, storage, storageFull, list, inflight, view, cart,
                  clock >>

\* handlePlaceOrder up to its await: the createOrder thunk is dispatched
PlaceOrder ==
  /\ Gesture
  /\ CanDispatch
  /\ view = "Orders"
  /\ Len(cart) # 0
  /\ trim(customerName) # ""
  /\ Commit(products, orders,
            inflight (+) Request(
              [kind |-> "createOrder", attached |-> TRUE,
               order |-> [customerName |-> trim(customerName),
                          items |-> orderItems(cart), total |-> cartTotal(cart),
                          status |-> "Pending"]]))
  /\ UNCHANGED << storageFull, view, cart, customerName, clock >>

\* createOrder is fulfilled; handlePlaceOrder resumes and clears cart and name of
\* the Orders instance that placed the order, if it is still mounted
CreateOrderResolve(r) ==
  /\ BagIn(r, inflight)
  /\ r.kind = "createOrder"
  /\ Commit(products, createFulfilled(orders, ordersAPIcreate(r.order)),
            inflight (-) Request(r))
  /\ cart' = IF r.attached THEN <<>> ELSE cart
  /\ customerName' = IF r.attached THEN "" ELSE customerName
  /\ UNCHANGED << ops, storageFull, view, clock >>

\* Orders page: Mark Completed / Cancel, shown for a Pending order (the list is
\* rendered only while the slice is not loading)
UpdateOrderStatusDispatch(i, status) ==
  /\ Gesture
  /\ CanDispatch
  /\ view = "Orders"
  /\ ~orders.loading
  /\ i \in 1..Len(orders.items)
  /\ orders.items[i].status = "Pending"
  /\ Commit(products, orders,
            inflight (+) Request([kind |-> "updateOrderStatus",
                                  id |-> orders.items[i].id, status |-> status]))
  /\ UNCHANGED << storageFull, view, cart, customerName, clock >>

UpdateOrderStatusResolve(r) ==
  /\ BagIn(r, inflight)
  /\ r.kind = "updateOrderStatus"
  /\ LET res == updateOrderStatusPayload(orders, r.id, r.status)
     IN Commit(products,
               IF res.ok THEN updateFulfilled(orders, res.value)
               ELSE updateOrderStatusRejected(orders, res.message),
               inflight (-) Request(r))
  /\ UNCHANGED << ops, storageFull, view, cart, customerName, clock >>

Next ==
  \/ Tick
  \/ \E v \in Views : Mount(v)
  \/ Restart
  \/ FetchProductsFulfilled
  \/ FetchOrdersFulfilled
  \/ \E id \in Ids(products.items) : ToggleStatus(id)
  \/ \E id \in Ids(products.items) : DeleteDispatch(id)
  \/ \E r \in BagToSet(inflight) : DeleteResolve(r)
  \/ \E form \in ProductForms : CreateProductDispatch(form)
  \/ \E r \in BagToSet(inflight) : CreateProductResolve(r)
  \/ \E id \in Ids(products.items), form \in ProductForms : UpdateProductDispatch(id, form)
  \/ \E r \in BagToSet(inflight) : UpdateProductResolve(r)
  \/ \E i \in 1..Len(products.items) : AddToCart(i)
  \/ \E k \in 1..Len(cart), delta \in {-1, 1} : UpdateQuantity(k, delta)
  \/ \E k \in 1..Len(cart) : RemoveFromCart(k)
  \/ \E name \in CustomerNames : SetCustomerName(name)
  \/ PlaceOrder
  \/ \E r \in BagToSet(inflight) : CreateOrderResolve(r)
  \/ \E i \in 1..Len(orders.items), status \in {"Completed", "Cancelled"} :
       UpdateOrderStatusDispatch(i, status)
  \/ \E r \in BagToSet(inflight) : UpdateOrderStatusResolve(r)

Spec == Init /\ [][Next]_vars

\* ------------------------------------------- the Products page on its own
\* The operator stays on the Products page and has a longer run of gestures.
InitProducts == Construct /\ storageFull \in BOOLEAN /\ ops = MaxProductOps

NextProducts ==
  \/ Tick
  \/ Mount("Products")
  \/ Restart
  \/ FetchProductsFulfilled
  \/ \E id \in Ids(products.items) : ToggleStatus(id)
  \/ \E id \in Ids(products.items) : DeleteDispatch(id)
  \/ \E r \in BagToSet(inflight) : DeleteResolve(r)
  \/ \E form \in ProductForms : CreateProductDispatch(form)
  \/ \E r \in BagToSet(inflight) : CreateProductResolve(r)
  \/ \E id \in Ids(products.items), form \in ProductForms : UpdateProductDispatch(id, form)
  \/ \E r \in BagToSet(inflight) : UpdateProductResolve(r)

SpecProducts == InitProducts /\ [][NextProducts]_vars

\* --------------------------------------------- the Orders page and its orders
\* The operator works on the Orders page, with visits to the Products page, and
\* has a longer run of gestures; the storage writes succeed or fail throughout.
InitOrders == Construct /\ storageFull \in BOOLEAN /\ ops = MaxOrderOps

NextOrders ==
  \/ Tick
  \/ \E v \in {"Orders", "Products"} : Mount(v)
  \/ FetchProductsFulfilled
  \/ FetchOrdersFulfilled
  \/ \E id \in Ids(products.items) : ToggleStatus(id)
  \/ \E id \in Ids(products.items) : DeleteDispatch(id)
  \/ \E r \in BagToSet(inflight) : DeleteResolve(r)
  \/ \E id \in Ids(products.items), form \in ProductForms : UpdateProductDispatch(id, form)
  \/ \E r \in BagToSet(inflight) : UpdateProductResolve(r)
  \/ \E i \in 1..Len(products.items) : AddToCart(i)
  \/ \E k \in 1..Len(cart), delta \in {-1, 1} : UpdateQuantity(k, delta)
  \/ \E k \in 1..Len(cart) : RemoveFromCart(k)
  \/ \E name \in CustomerNames : SetCustomerName(name)
  \/ PlaceOrder
  \/ \E r \in BagToSet(inflight) : CreateOrderResolve(r)
  \/ \E i \in 1..Len(orders.items), status \in {"Completed", "Cancelled"} :
       UpdateOrderStatusDispatch(i, status)
  \/ \E r \in BagToSet(inflight) : UpdateOrderStatusResolve(r)

SpecOrders == InitOrders /\ [][NextOrders]_vars

\* ------------------------------------------------- the persistence bridge
\* The store in any shape the slices can take, with the key absent or holding an
\* older text; a slice is loading exactly while its fetch is in flight.
ItemLists(seed) ==
  {<<>>, <<seed[1]>>, <<seed[2]>>, seed, <<seed[2], seed[1]>>}

InitPersist ==
  /\ products \in [items : ItemLists(SeedProducts), loading : BOOLEAN, error : {null}]
  /\ orders \in [items : ItemLists(SeedOrders), loading : BOOLEAN,
                  error : {null, "Order not found"}]
  /\ storage \in {<<>>, << stateToPersist(RootState(initialState, initialState)) >>}
  /\ storageFull \in BOOLEAN
  /\ inflight =
       (IF products.loading THEN Request([kind |-> "fetchProducts"]) ELSE EmptyBag)
       (+) (IF orders.loading THEN Request([kind |-> "fetchOrders"]) ELSE EmptyBag)
  /\ view = "Dashboard"
  /\ cart = <<>>
  /\ customerName = ""
  /\ clock = 1
  /\ list = initialList
  /\ ops = 0

\* store.subscribe's listener on its own: the state is saved as it is.
Subscriber ==
  /\ storage' = saveState(RootState(products, orders), storage)
  /\ UNCHANGED << products, orders, storageFull, list, inflight, view, cart, customerName,
                  clock, ops >>

NextPersist == Subscriber \/ Restart

SpecPersist == InitPersist /\ [][NextPersist]_vars

\* ---------------------------------------------------------- the Dashboard
\* revenue.toFixed(2) read back by parseFloat: the nearest whole cent
toFixed2(x) == ((x + 5) \div 10) * 10

RECURSIVE sumTotals(_, _)
\* reduce((sum, order) => sum + order.total, 0)
sumTotals(os, i) == IF i = 0 THEN 0 ELSE sumTotals(os, i - 1) + os[i].total

\* stats with the revenue summed over every order that is not cancelled
\* (used to test C30).
statsOverNotCancelled(p, o) ==
  LET counted == SelectSeq(o, LAMBDA x : x.status # "Cancelled")
  IN [totalProducts |-> Len(p),
      activeProducts |-> Len(SelectSeq(p, LAMBDA x : x.status = "Active")),
      totalOrders |-> Len(o),
      pendingOrders |-> Len(SelectSeq(o, LAMBDA x : x.status = "Pending")),
      revenue |-> toFixed2(sumTotals(counted, Len(counted)))]

stats(p, o) ==
  LET completed == SelectSeq(o, LAMBDA x : x.status = "Completed")
  IN [totalProducts |-> Len(p),
      activeProducts |-> Len(SelectSeq(p, LAMBDA x : x.status = "Active")),
      totalOrders |-> Len(o),
      pendingOrders |-> Len(SelectSeq(o, LAMBDA x : x.status = "Pending")),
      revenue |-> toFixed2(sumTotals(completed, Len(completed)))]

\* A first visit: nothing is persisted, the router lands on the Dashboard, and
\* the page is not reloaded.
NextFresh ==
  \/ view = "none" /\ Mount("Dashboard")
  \/ /\ view # "none"
     /\ \/ Tick
        \/ \E v \in Views : Mount(v)
        \/ FetchProductsFulfilled
        \/ FetchOrdersFulfilled
        \/ \E id \in Ids(products.items) : ToggleStatus(id)
        \/ \E id \in Ids(products.items) : DeleteDispatch(id)
        \/ \E r \in BagToSet(inflight) : DeleteResolve(r)
        \/ \E form \in ProductForms : CreateProductDispatch(form)
        \/ \E r \in BagToSet(inflight) : CreateProductResolve(r)
        \/ \E id \in Ids(products.items), form \in ProductForms :
             UpdateProductDispatch(id, form)
        \/ \E r \in BagToSet(inflight) : UpdateProductResolve(r)
        \/ \E i \in 1..Len(products.items) : AddToCart(i)
        \/ \E k \in 1..Len(cart), delta \in {-1, 1} : UpdateQuantity(k, delta)
        \/ \E k \in 1..Len(cart) : RemoveFromCart(k)
        \/ \E name \in CustomerNames : SetCustomerName(name)
        \/ PlaceOrder
        \/ \E r \in BagToSet(inflight) : CreateOrderResolve(r)
        \/ \E i \in 1..Len(orders.items), status \in {"Completed", "Cancelled"} :
             UpdateOrderStatusDispatch(i, status)
        \/ \E r \in BagToSet(inflight) : UpdateOrderStatusResolve(r)

SpecFresh == Init /\ [][NextFresh]_vars

\* ------------------------------------------------------ reading a step
\* The statuses of the products of items that carry the id.
StatusesOf(items, id) ==
  {items[i].status : i \in {j \in 1..Len(items) : items[j].id = id}}

\* This step is the resolution of the suspended thunk r (a reload drops every
\* thunk at once and leaves no page mounted).
Resolves(r) ==
  /\ CopiesIn(r, inflight') < CopiesIn(r, inflight)
  /\ view' = view

\* ------------------------------------------------------------------ C1
\* C1: a deleteProduct that was dispatched for an Active product and resolves
\* while the product is Active leaves a product with that id, Inactive, in
\* products.items; a deleteProduct dispatched for an Inactive product that
\* resolves while it is Inactive leaves no product with that id in products.items.
C1_SequentialDelete ==
  [][\A r \in BagToSet(inflight) :
       (r.kind = "deleteProduct" /\ Resolves(r)) =>
         LET before == StatusesOf(products.items, r.id)
             after == StatusesOf(products'.items, r.id)
         IN /\ (r.isActive /\ "Active" \in before) => "Inactive" \in after
            /\ (~r.isActive /\ "Inactive" \in before) => after = {}]_vars

\* ------------------------------------------------------------------ C2
\* C2: whatever lands while the backend delete is in flight, a deleteProduct
\* that resolves takes its branch from the status the product had when the
\* request was dispatched: Active at dispatch, the product is kept and set
\* Inactive; Inactive at dispatch, it is removed.
C2_BranchByStatusAtDispatch ==
  [][\A r \in BagToSet(inflight) :
       (r.kind = "deleteProduct" /\ Resolves(r) /\ IndexOf(products.items, r.id) # 0) =>
         LET i == IndexOf(products.items, r.id)
         IN IF r.isActive
            THEN /\ Len(products'.items) = Len(products.items)
                 /\ products'.items[i].id = r.id
                 /\ products'.items[i].status = "Inactive"
            ELSE products'.items = splice(products.items, i)]_vars

\* ------------------------------------------------------------------ C3
\* C3: when an updateOrderStatus request resolves, whatever other requests are
\* in flight, an order that is Completed or Cancelled keeps its status; the only
\* status changes are Pending to Completed and Pending to Cancelled.
C3_OrderStatusMonotone ==
  [][\A r \in BagToSet(inflight) :
       (r.kind = "updateOrderStatus" /\ Resolves(r)) =>
         \A i \in 1..Len(orders.items) :
           ( /\ i <= Len(orders'.items)
             /\ orders'.items[i].id = orders.items[i].id
             /\ orders'.items[i].status # orders.items[i].status )
           => /\ orders.items[i].status = "Pending"
              /\ orders'.items[i].status \in {"Completed", "Cancelled"}]_vars

\* ------------------------------------------------------------------ C4
RECURSIVE SumOfLines(_, _)
\* The sum of price * quantity over the first i lines of an order.
SumOfLines(lines, i) ==
  IF i = 0 THEN 0 ELSE SumOfLines(lines, i - 1) + lines[i].price * lines[i].quantity

\* C4: in every reachable state the total of every order in orders.items is the
\* sum of price * quantity over its lines, and no step changes the total or the
\* lines of an order that stays in orders.items (status updates through the
\* backend or through the in-memory fallback, product edits, toggles, deletes).
C4_TotalFixedAtCreation ==
  /\ [](\A i \in 1..Len(orders.items) :
          orders.items[i].total =
            SumOfLines(orders.items[i].items, Len(orders.items[i].items)))
  /\ [][\A i \in 1..Len(orders.items) :
          (i <= Len(orders'.items) /\ orders'.items[i].id = orders.items[i].id)
          => /\ orders'.items[i].total = orders.items[i].total
             /\ orders'.items[i].items = orders.items[i].items]_vars

\* An order placed in this session was completed through the fallback path, and
\* a product on one of its lines has since changed price or left the store.
C4_Witness ==
  \E i \in 1..Len(orders.items) :
    LET o == orders.items[i]
    IN /\ o.id > 100
       /\ o.status = "Completed"
       /\ \E j \in 1..Len(o.items) :
            \A k \in 1..Len(products.items) :
              products.items[k].id = o.items[j].productId
              => products.items[k].price # o.items[j].price

\* ------------------------------------------------------------------ C5
\* C5: every toggle of a product's status flips the status between Active and
\* Inactive (so two toggles restore it) and strictly increases updatedAt.
\* The toggle is the one gesture that changes products.items.
C5_ToggleTwice ==
  [][(ops' < ops /\ products'.items # products.items) =>
       /\ Len(products'.items) = Len(products.items)
       /\ \A i \in 1..Len(products.items) :
            products'.items[i] # products.items[i] =>
              /\ products'.items[i].status =
                   (IF products.items[i].status = "Active" THEN "Inactive" ELSE "Active")
              /\ products'.items[i].updatedAt > products.items[i].updatedAt]_vars

\* ------------------------------------------------------------------ C6
\* What a reload makes of items P and O: the items, with the flags reset.
Rehydrated(p, o) ==
  RootState([items |-> p, loading |-> FALSE, error |-> null],
            [items |-> o, loading |-> FALSE, error |-> null])

ItemsOnly(p, o) == [products |-> [items |-> p.items], orders |-> [items |-> o.items]]

\* C7: provided the storage write does not fail, after every dispatched action
\* that reaches the store (a thunk's pending, fulfilled or rejected action, the
\* toggle) the key holds exactly {products: {items}, orders: {items}} of the
\* current state, with no loading or error field; the key is absent only while
\* no action has been dispatched.
C7_StorageMirrorsItems ==
  /\ [](~storageFull =>
          IF storage = <<>>
          THEN products = initialState /\ orders = initialState
          ELSE storage = << ItemsOnly(products, orders) >>)
  /\ [][( /\ ~storageFull
           /\ ~(view # "none" /\ view' = "none")
           /\ (inflight' # inflight \/ products' # products \/ orders' # orders) )
         => storage' = << ItemsOnly(products', orders') >>]_vars

\* The key holds fetched items while a fetch is still loading.
C7_Witness ==
  /\ ~storageFull
  /\ products.loading
  /\ Len(orders.items) > 0
  /\ storage = << ItemsOnly(products, orders) >>

\* ------------------------------------------------------------------ C8
FetchCount(fl) ==
  CopiesIn([kind |-> "fetchProducts"], fl) + CopiesIn([kind |-> "fetchOrders"], fl)

\* C8: with the key present, a process start gives the store the persisted items
\* with loading = false and error = null in both slices, and no step (the mount
\* of any page included) dispatches fetchProducts or fetchOrders, even when a
\* persisted items array is empty.
C8_StartFromPersisted ==
  [][storage # <<>> =>
       /\ (view # "none" /\ view' = "none") =>
            /\ products' = [items |-> storage[1].products.items,
                            loading |-> FALSE, error |-> null]
            /\ orders' = [items |-> storage[1].orders.items,
                          loading |-> FALSE, error |-> null]
       /\ FetchCount(inflight') <= FetchCount(inflight)
       /\ (view' # view /\ view' # "none") => products' = products /\ orders' = orders]_vars

\* The process was started with the key holding empty items arrays and a page is
\* mounted: nothing is loading, nothing is in flight (no gesture was made, so the
\* empty store is the rehydrated one).
C8_Witness ==
  /\ view # "none"
  /\ ops = MaxOps
  /\ storage # <<>>
  /\ storage[1].products.items = <<>>
  /\ storage[1].orders.items = <<>>
  /\ products = initialState
  /\ orders = initialState
  /\ inflight = EmptyBag

\* ------------------------------------------------------------------ C9
\* The store holds the result of mutations: products or orders that are neither
\* empty nor the seed.
Mutated ==
  \/ products.items \notin {<<>>, SeedProducts}
  \/ orders.items \notin {<<>>, SeedOrders}

C10_FreshStart ==
  /\ [][(view = "none" /\ storage = <<>> /\ view' = "Dashboard") =>
          /\ BagIn([kind |-> "fetchProducts"], inflight')
          /\ BagIn([kind |-> "fetchOrders"], inflight')]_vars
  /\ []((view # "none" /\ ops = MaxOps /\ FetchCount(inflight) = 0) =>
          /\ products.items = SeedProducts
          /\ orders.items = SeedOrders
          /\ stats(products.items, orders.items).totalProducts = Len(SeedProducts)
          /\ LET done == {i \in 1..Len(SeedOrders) : SeedOrders[i].status = "Completed"}
                 total[S \in SUBSET done] ==
                   IF S = {} THEN 0
                   ELSE LET i == CHOOSE j \in S : TRUE
                        IN SeedOrders[i].total + total[S \ {i}]
             IN stats(products.items, orders.items).revenue = total[done])

\* Both fetches have resolved on the Dashboard, no gesture made.
C10_Witness ==
  /\ view = "Dashboard"
  /\ ops = MaxOps
  /\ inflight = EmptyBag
  /\ products.items = SeedProducts
  /\ orders.items = SeedOrders

\* ------------------------------------------- a start over a malformed key
\* Content under 'reduxState' that JSON.parse rejects.
Malformed == [garbage |-> TRUE]

\* The process starts with the key absent or holding malformed content: the
\* store is built from loadState().
InitStart ==
  /\ storage \in {<<>>, << Malformed >>}
  /\ products = loadState(storage).products
  /\ orders = loadState(storage).orders
  /\ storageFull \in BOOLEAN
  /\ inflight = EmptyBag
  /\ view = "none"
  /\ cart = <<>>
  /\ customerName = ""
  /\ clock = 1
  /\ list = initialList
  /\ ops = MaxOps

SpecStart == InitStart /\ [][Next]_vars

\* ----------------------------------------------------------------- C11
\* C11: when the content of the key is malformed, the process starts as if
\* nothing were persisted: both slices start with empty items, and the page
\* that mounts while the key is still malformed dispatches fetchProducts (and
\* fetchOrders on the Dashboard and the Orders page).
C11_MalformedStartsFresh ==
  [][(storage = << Malformed >> /\ view = "none" /\ view' # "none") =>
       /\ products.items = <<>>
       /\ orders.items = <<>>
       /\ BagIn([kind |-> "fetchProducts"], inflight')
       /\ view' \in {"Dashboard", "Orders"} =>
            BagIn([kind |-> "fetchOrders"], inflight')]_vars

\* ----------------------------------------------------------------- C12
\* C12: while the storage write fails, every step leaves the key as it was,
\* records no error of the write in either slice, and applies the store
\* transition of the action in full: a resolved fetch installs the seed, a
\* resolved create appends its record, a resolved delete, update or status
\* update changes the record it finds, a toggle changes the product.
C12_WriteFailureSwallowed ==
  [][storageFull =>
       /\ storage' = storage
       /\ products'.error = null
       /\ orders'.error \in {null, "Order not found"}
       /\ \A r \in BagToSet(inflight) :
            Resolves(r) =>
              CASE r.kind = "fetchProducts" ->
                     products'.items = SeedProducts /\ ~products'.loading
                [] r.kind = "fetchOrders" ->
                     orders'.items = SeedOrders /\ ~orders'.loading
                [] r.kind = "createProduct" ->
                     /\ Len(products'.items) = Len(products.items) + 1
                     /\ products'.items[Len(products'.items)].name = r.form.name
                [] r.kind = "createOrder" ->
                     /\ Len(orders'.items) = Len(orders.items) + 1
                     /\ orders'.items[Len(orders'.items)].total = r.order.total
                [] r.kind = "deleteProduct" ->
                     IndexOf(products.items, r.id) # 0 => products'.items # products.items
                [] r.kind = "updateProduct" ->
                     (IndexOf(products.items, r.id) # 0 /\ productsAPIupdate(r.id, r.form).ok)
                     => products'.items[IndexOf(products.items, r.id)].updatedAt = Now
                [] r.kind = "updateOrderStatus" ->
                     IndexOf(orders.items, r.id) # 0
                     => orders'.items[IndexOf(orders.items, r.id)].status = r.status
       /\ ( /\ ops' < ops
            /\ view = "Products"
            /\ inflight' = inflight ) => products'.items # products.items]_vars

\* With the write failing and the key still absent, a seed product was
\* hard-deleted and a product created in the session is in the store.
C12_Witness ==
  /\ storageFull
  /\ storage = <<>>
  /\ 1 \in Ids(products.items)
  /\ 2 \notin Ids(products.items)
  /\ \E id \in Ids(products.items) : id > 100

\* ----------------------------------------------------------------- C13
\* C13: when a status update resolves for an order that is not in the seed
\* data but is in orders.items, it is fulfilled from memory: afterwards the
\* stored order carries the new status, its other fields and every other
\* order are as before, and no error is set.
C13_FallbackFromMemory ==
  [][\A r \in BagToSet(inflight) :
       ( /\ r.kind = "updateOrderStatus"
         /\ Resolves(r)
         /\ IndexOf(SeedOrders, r.id) = 0
         /\ IndexOf(orders.items, r.id) # 0 )
       => LET i == IndexOf(orders.items, r.id)
          IN /\ orders'.items =
                  [orders.items EXCEPT ![i] = [orders.items[i] EXCEPT !.status = r.status]]
             /\ orders'.error = orders.error]_vars

\* An order created in the session has left Pending.
C13_Witness ==
  \E i \in 1..Len(orders.items) :
    /\ orders.items[i].id > 100
    /\ orders.items[i].status # "Pending"

\* ----------------------------------------------------------------- C14
\* C14: when a status update resolves for an id that is neither in the seed
\* orders nor in orders.items, it is rejected: orders.error becomes the
\* NotFound message and orders.items is untouched.
C14_UnknownOrderRejected ==
  [][\A r \in BagToSet(inflight) :
       ( /\ r.kind = "updateOrderStatus"
         /\ Resolves(r)
         /\ IndexOf(SeedOrders, r.id) = 0
         /\ IndexOf(orders.items, r.id) = 0 )
       => /\ orders'.error = "Order not found"
          /\ orders'.items = orders.items
          /\ orders'.loading = orders.loading]_vars

\* A status update was rejected with NotFound.
C14_Witness == orders.error = "Order not found"

\* ----------------------------------------------------------------- C15
\* C15: when an update of a product resolves while the product is still in
\* products.items (the page only edits listed products, those created in the
\* session included), the backend does not answer NotFound and the stored
\* product carries the submitted name, price and status.
C15_UpdateCarriesSubmitted ==
  [][\A r \in BagToSet(inflight) :
       ( /\ r.kind = "updateProduct"
         /\ Resolves(r)
         /\ IndexOf(products.items, r.id) # 0 )
       => LET i == IndexOf(products.items, r.id)
          IN /\ productsAPIupdate(r.id, r.form).ok
             /\ Len(products'.items) = Len(products.items)
             /\ products'.items[i].id = r.id
             /\ products'.items[i].name = r.form.name
             /\ products'.items[i].price = r.form.price
             /\ products'.items[i].status = r.form.status]_vars

\* ----------------------------------------------------------------- C16
\* C16: the fetch lifecycle of both slices. A step that dispatches a fetch
\* sets the slice's loading, clears its error and keeps its items; a step
\* that fulfils a fetch clears loading and installs the payload (the seed
\* list); a rejection, applied to any reachable slice, clears loading, sets
\* the error to the message and keeps the items.
\* (the pending case is read on the steps in which no request on the same
\* slice settles, so that the slice's change is the pending reducer's alone)
FetchLifecycle(kind, kinds, before, after, payload) ==
  LET r == [kind |-> kind]
  IN /\ ( /\ CopiesIn(r, inflight') > CopiesIn(r, inflight)
          /\ \A q \in BagToSet(inflight) : q.kind \in kinds => ~Resolves(q) )
        => /\ after.loading
           /\ after.error = null
           /\ after.items = before.items
     /\ Resolves(r)
        => /\ ~after.loading
           /\ after.items = payload
           /\ after.error = before.error

RejectedKeepsItems(state, message) ==
  LET s == fetchRejected(state, message)
  IN ~s.loading /\ s.error = message /\ s.items = state.items

C16_FetchLifecycle ==
  /\ [](/\ RejectedKeepsItems(products, "Failed to fetch products")
        /\ RejectedKeepsItems(orders, "Failed to fetch orders"))
  /\ [][/\ FetchLifecycle("fetchProducts",
                       {"fetchProducts", "createProduct", "updateProduct", "deleteProduct"},
                       products, products', SeedProducts)
        /\ FetchLifecycle("fetchOrders",
                       {"fetchOrders", "createOrder", "updateOrderStatus"},
                       orders, orders', SeedOrders)]_vars

\* The products fetch was fulfilled while the orders fetch is still pending.
C16_Witness ==
  /\ products.items = SeedProducts
  /\ ~products.loading
  /\ orders.loading
  /\ orders.items = <<>>
  /\ BagIn([kind |-> "fetchOrders"], inflight)

\* ----------------------------------------------------------------- C17
\* C17: when a product update is fulfilled, the record with the payload's id
\* is replaced in place by the payload and nothing else changes (no other
\* product, no flag of the slice, no order); when no record has that id, as
\* after a hard delete that settled first, the products slice is unchanged.
C17_UpdateInPlace ==
  [][\A r \in BagToSet(inflight) :
       ( /\ r.kind = "updateProduct"
         /\ Resolves(r)
         /\ productsAPIupdate(r.id, r.form).ok )
       => LET payload == productsAPIupdate(r.id, r.form).value
              i == IndexOf(products.items, r.id)
          IN /\ orders' = orders
             /\ IF i = 0 THEN products' = products
                ELSE products' = [products EXCEPT !.items[i] = payload]]_vars

\* The second seed product was edited where it stands.
C17_Witness ==
  /\ Len(products.items) >= 2
  /\ products.items[1].id = 1
  /\ products.items[2].id = 2
  /\ products.items[2].name = "Pot"

\* ----------------------------------------------------------------- C18
\* C18: within a run of the page (restarts aside), whenever a product id that
\* was in products.items is no longer there after a step, the step fulfils a
\* delete of that id and the product was Inactive just before the step.
C18_RemovedOnlyWhenInactive ==
  [][view' # "none" =>
       \A id \in Ids(products.items) \ Ids(products'.items) :
         /\ \E r \in BagToSet(inflight) :
              r.kind = "deleteProduct" /\ r.id = id /\ Resolves(r)
         /\ products.items[IndexOf(products.items, id)].status = "Inactive"]_vars

\* ----------------------------------------------------------------- C19
\* C19: within a run of the page (restarts aside), every order that is in
\* orders.items before a step is there after it, with at most its status
\* changed.
C19_OrdersNeverDeleted ==
  [][view' # "none" =>
       \A i \in 1..Len(orders.items) :
         \E j \in 1..Len(orders'.items) :
           orders'.items[j] =
             [orders.items[i] EXCEPT !.status = orders'.items[j].status]]_vars

\* ----------------------------------------------------------------- C20
\* C20: in every reachable state no two products share an id and no two
\* orders share an id.
C20_IdsUnique ==
  /\ Cardinality(Ids(products.items)) = Len(products.items)
  /\ Cardinality(Ids(orders.items)) = Len(orders.items)

\* ----------------------------------------------------------------- C21
\* C21: every product mutation refreshes updatedAt to the current time and
\* leaves id and createdAt alone: the product replaced by a fulfilled update,
\* the product changed by a status toggle, the product marked Inactive by a
\* soft delete.
Refreshed(before, after) ==
  /\ after.updatedAt = Now
  /\ after.id = before.id
  /\ after.createdAt = before.createdAt

C21_UpdatedAtRefreshed ==
  [][/\ \A r \in BagToSet(inflight) :
          LET i == IndexOf(products.items, r.id)
          IN /\ ( /\ r.kind = "updateProduct"
                  /\ Resolves(r)
                  /\ productsAPIupdate(r.id, r.form).ok
                  /\ i # 0 )
                => Refreshed(products.items[i], products'.items[i])
             /\ ( /\ r.kind = "deleteProduct"
                  /\ Resolves(r)
                  /\ i # 0
                  /\ products.items[i].status = "Active" )
                => /\ Len(products'.items) = Len(products.items)
                   /\ products'.items[i].status = "Inactive"
                   /\ Refreshed(products.items[i], products'.items[i])
     /\ ( /\ ops' < ops
          /\ view = "Products"
          /\ inflight' = inflight )
        => /\ Len(products'.items) = Len(products.items)
           /\ \E i \in 1..Len(products.items) :
                products'.items[i].status # products.items[i].status
           /\ \A i \in 1..Len(products.items) :
                products'.items[i] # products.items[i]
                => Refreshed(products.items[i], products'.items[i])]_vars

\* A seed product was toggled or soft-deleted after the clock had advanced.
C21_Witness ==
  \E i \in 1..Len(products.items) :
    /\ products.items[i].id \in Ids(SeedProducts)
    /\ products.items[i].createdAt = 0
    /\ products.items[i].updatedAt > 1
    /\ products.items[i].name \in {"Tea", "Mug"}

\* ------------------------------------------------ the forms and their checks
\* handleSubmit's early returns: a check fails, the alert is shown and the
\* handler returns before any dispatch
SubmitBlocked(productData) ==
  /\ Gesture
  /\ view = "Products"
  /\ validationError(productData) # null
  /\ UNCHANGED << products, orders, storage, storageFull, list, inflight, view, cart,
                  customerName, clock >>

\* handleSubmit as a whole, for the data the form holds: blocked, or the
\* create or the update of the product being edited
handleSubmit(productData) ==
  \/ SubmitBlocked(productData)
  \/ /\ validationError(productData) = null
     /\ \/ CreateProductDispatch(Submitted(productData))
        \/ \E id \in Ids(products.items) :
             UpdateProductDispatch(id, Submitted(productData))

\* handlePlaceOrder's early returns: empty cart or blank name
PlaceOrderBlocked ==
  /\ Gesture
  /\ view = "Orders"
  /\ Len(cart) = 0 \/ trim(customerName) = ""
  /\ UNCHANGED << products, orders, storage, storageFull, list, inflight, view, cart,
                  customerName, clock >>

handlePlaceOrder == PlaceOrderBlocked \/ PlaceOrder

\* The operator fills and submits the two forms, with data that passes the
\* checks and data that does not; storage writes succeed.
InitForms == Construct /\ storageFull = FALSE /\ ops = MaxOps

NextForms ==
  \/ \E v \in {"Products", "Orders"} : Mount(v)
  \/ FetchProductsFulfilled
  \/ FetchOrdersFulfilled
  \/ \E productData \in FormInputs : SubmitBlocked(productData)
  \/ \E form \in ProductForms : CreateProductDispatch(form)
  \/ \E r \in BagToSet(inflight) : CreateProductResolve(r)
  \/ \E id \in Ids(products.items), form \in ProductForms : UpdateProductDispatch(id, form)
  \/ \E r \in BagToSet(inflight) : UpdateProductResolve(r)
  \/ \E i \in 1..Len(products.items) : AddToCart(i)
  \/ \E k \in 1..Len(cart) : RemoveFromCart(k)
  \/ \E name \in CustomerNames : SetCustomerName(name)
  \/ PlaceOrderBlocked
  \/ PlaceOrder
  \/ \E r \in BagToSet(inflight) : CreateOrderResolve(r)

SpecForms == InitForms /\ [][NextForms]_vars

\* ----------------------------------------------------------------- C22
\* C22: a submission that fails a check changes nothing. When the product
\* data has a name shorter than 3 characters, a price <= 0, a stock < 0, an
\* empty category or a rating outside [1, 5], every step of handleSubmit on
\* that data leaves the store, the key, the thunks in flight, the cart and
\* the customer name as they were; so does every step of handlePlaceOrder
\* when the cart is empty or the customer name is blank.
FailsACheck(productData) ==
  \/ length(productData.name) < 3
  \/ productData.price <= 0
  \/ productData.stock < 0
  \/ productData.category = ""
  \/ productData.rating < 10
  \/ productData.rating > 50

NothingChanged ==
  UNCHANGED << products, orders, storage, inflight, cart, customerName >>

C22_ValidationBlocks ==
  [][/\ \A productData \in FormInputs :
          FailsACheck(productData) /\ handleSubmit(productData) => NothingChanged
     /\ (Len(cart) = 0 \/ customerName \in {"", " "}) /\ handlePlaceOrder
          => NothingChanged]_vars

\* On the Orders page, with the name filled in and the cart emptied again, the
\* operator has used every gesture and no order was placed.
C22_Witness ==
  /\ view = "Orders"
  /\ ops = 0
  /\ cart = <<>>
  /\ customerName = "Ada "
  /\ orders.items = SeedOrders
  /\ inflight = EmptyBag

\* ----------------------------------------------------------------- C23
\* The sum of price * quantity over the first i lines of a cart.
RECURSIVE SumOfCart(_, _)
SumOfCart(c, i) ==
  IF i = 0 THEN 0 ELSE SumOfCart(c, i - 1) + c[i].product.price * c[i].quantity

\* A step that dispatches createOrder carries the cart: its lines in cart
\* order, the sum of price * quantity as total, the trimmed name. A step that
\* fulfils it appends exactly that order, and clears cart and name: always
\* (always = TRUE), or when the page that placed it is still mounted.
Placement(always) ==
  /\ \A r \in BagToSet(inflight') :
       ( /\ r.kind = "createOrder"
         /\ view' = view
         /\ CopiesIn(r, inflight') > CopiesIn(r, inflight) )
       => /\ Len(cart) > 0
          /\ customerName \notin {"", " "}
          /\ Len(r.order.items) = Len(cart)
          /\ \A k \in 1..Len(cart) :
               r.order.items[k] =
                 [productId |-> cart[k].product.id, name |-> cart[k].product.name,
                  price |-> cart[k].product.price, quantity |-> cart[k].quantity]
          /\ r.order.total = SumOfCart(cart, Len(cart))
  /\ \A r \in BagToSet(inflight) :
       (r.kind = "createOrder" /\ Resolves(r))
       => /\ Len(orders'.items) = Len(orders.items) + 1
          /\ SubSeq(orders'.items, 1, Len(orders.items)) = orders.items
          /\ orders'.items[Len(orders'.items)].items = r.order.items
          /\ orders'.items[Len(orders'.items)].total = r.order.total
          /\ orders'.items[Len(orders'.items)].customerName = r.order.customerName
          /\ (always \/ r.attached) => cart' = <<>> /\ customerName' = ""

\* C23 as stated: every placement appends exactly one order with the cart's
\* lines and total, and leaves the cart empty and the name cleared.
C23_AsStated == [][Placement(TRUE)]_vars

\* C23, amended: the same, with cart and name cleared when the Orders page
\* that placed the order is still mounted at fulfilment.
C23_PlaceOrder == [][Placement(FALSE)]_vars

\* An order of two units of one product was placed in this session, and the
\* cart and the name field are empty again.
C23_Witness ==
  /\ view = "Orders"
  /\ cart = <<>>
  /\ customerName = ""
  /\ \E i \in 1..Len(orders.items) :
       LET o == orders.items[i]
       IN /\ o.id > 100
          /\ Len(o.items) = 1
          /\ o.items[1].quantity = 2
          /\ o.total = 2 * o.items[1].price

\* ----------------------------------------------------------------- C24
ProductKinds == {"fetchProducts", "createProduct", "updateProduct", "deleteProduct"}
OrderKinds == {"fetchOrders", "createOrder", "updateOrderStatus"}

\* Some thunk of one of the kinds is dispatched or settles in this step of the
\* mounted page.
ActsOn(kinds) ==
  /\ view' = view
  /\ \/ \E r \in BagToSet(inflight) : r.kind \in kinds /\ Resolves(r)
     \/ \E r \in BagToSet(inflight') :
          r.kind \in kinds \ {"fetchProducts", "fetchOrders"}
          /\ CopiesIn(r, inflight') > CopiesIn(r, inflight)

\* The slice is as it was, or the page effect has dispatched the slice's own
\* fetch in the same round and the slice shows that fetch as pending.
Untouched(before, after, fetch) ==
  \/ after = before
  \/ /\ CopiesIn([kind |-> fetch], inflight') > CopiesIn([kind |-> fetch], inflight)
     /\ after = [before EXCEPT !.loading = TRUE, !.error = null]

\* C24: a step of a product action (fetch, create, update, delete settling or
\* being dispatched, a status toggle) leaves the orders slice as it was, and a
\* step of an order action leaves the products slice as it was.
C24_SlicesDecoupled ==
  [][/\ ( \/ ActsOn(ProductKinds)
          \/ ops' < ops /\ view = "Products" /\ inflight' = inflight )
        => Untouched(orders, orders', "fetchOrders")
     /\ ActsOn(OrderKinds) => Untouched(products, products', "fetchProducts")]_vars

\* The second seed product was hard-deleted and the first one edited, and the
\* seed orders that name them are as they were fetched.
C24_Witness ==
  /\ orders.items = SeedOrders
  /\ Len(products.items) = 1
  /\ products.items[1].id = 1
  /\ products.items[1].price # 1990

\* ------------------------------------------------ the Products page's list
\* Products a persisted store can hold, with what the list hooks read of them:
\* names in mixed case, two categories, both statuses, two rows without a
\* price (the value the sort takes for null or undefined), and two rows whose
\* updatedAt are different texts of the same instant.
Catalog ==
  { [id |-> 1, name |-> << "T", "e", "a" >>, category |-> "Drinks",
     status |-> "Active", price |-> 1990, createdAt |-> 0, updatedAt |-> 0],
    [id |-> 2, name |-> << "M", "U", "G" >>, category |-> "Kitchen",
     status |-> "Inactive", price |-> 4500, createdAt |-> 0, updatedAt |-> 1],
    [id |-> 3, name |-> << "P", "o", "t" >>, category |-> "Kitchen",
     status |-> "Active", createdAt |-> 0, updatedAt |-> 0],
    [id |-> 4, name |-> << "t", "E", "A", "p", "O", "t" >>, category |-> "Drinks",
     status |-> "Inactive", createdAt |-> 0, updatedAt |-> 101] }

Searches == { <<>>, << "t", "e" >>, << "E", "A" >>, << "p", "o", "t" >>, << "x" >> }
Categories == {"All", "Drinks", "Kitchen"}
Statuses == {"All", "Active", "Inactive"}
SortFields == {"price", "updatedAt"}

RECURSIVE RowLists(_)
\* The lists of at most n different products of the catalog.
RowLists(n) ==
  IF n = 0 THEN { <<>> }
  ELSE LET shorter == RowLists(n - 1)
       IN shorter \cup
          UNION { { Append(l, row) :
                      row \in {c \in Catalog : \A i \in 1..Len(l) : l[i].id # c.id} } :
                  l \in {x \in shorter : Len(x) = n - 1} }

\* the search box (after its debounce), the two selects, the sort buttons
SetSearch(str) ==
  /\ Gesture
  /\ view = "Products"
  /\ str # list.search
  /\ list' = render([list EXCEPT !.search = str], products.items)
  /\ UNCHANGED << products, orders, storage, storageFull, inflight, view, cart,
                  customerName, clock >>

SetCategoryFilter(category) ==
  /\ Gesture
  /\ view = "Products"
  /\ category # list.categoryFilter
  /\ list' = render([list EXCEPT !.categoryFilter = category], products.items)
  /\ UNCHANGED << products, orders, storage, storageFull, inflight, view, cart,
                  customerName, clock >>

SetStatusFilter(status) ==
  /\ Gesture
  /\ view = "Products"
  /\ status # list.statusFilter
  /\ list' = render([list EXCEPT !.statusFilter = status], products.items)
  /\ UNCHANGED << products, orders, storage, storageFull, inflight, view, cart,
                  customerName, clock >>

handleSort(field) ==
  /\ Gesture
  /\ view = "Products"
  /\ list' = render(IF list.sortField = field
                    THEN [list EXCEPT !.sortDirection =
                                        IF @ = "asc" THEN "desc" ELSE "asc"]
                    ELSE [list EXCEPT !.sortField = field, !.sortDirection = "asc"],
                    products.items)
  /\ UNCHANGED << products, orders, storage, storageFull, inflight, view, cart,
                  customerName, clock >>

\* the hook's page moves, over the sorted products and the page size
Pages == totalPages(sortedProducts(products.items, list), PageSize)

NextPage ==
  /\ Gesture
  /\ view = "Products"
  /\ list' = render([list EXCEPT !.currentPage = nextPage(@, Pages)], products.items)
  /\ UNCHANGED << products, orders, storage, storageFull, inflight, view, cart,
                  customerName, clock >>

PrevPage ==
  /\ Gesture
  /\ view = "Products"
  /\ list' = render([list EXCEPT !.currentPage = prevPage(@)], products.items)
  /\ UNCHANGED << products, orders, storage, storageFull, inflight, view, cart,
                  customerName, clock >>

GoToPage(page) ==
  /\ Gesture
  /\ view = "Products"
  /\ list' = render([list EXCEPT !.currentPage = goToPage(page, Pages)], products.items)
  /\ UNCHANGED << products, orders, storage, storageFull, inflight, view, cart,
                  customerName, clock >>

\* The Products page is open over a store rehydrated from the key, which
\* holds some list of catalog products.
InitList ==
  /\ products \in [items : RowLists(MaxRows), loading : {FALSE}, error : {null}]
  /\ orders = initialState
  /\ storage = << stateToPersist(RootState(products, orders)) >>
  /\ storageFull = FALSE
  /\ inflight = EmptyBag
  /\ view = "Products"
  /\ cart = <<>>
  /\ customerName = ""
  /\ clock = 1
  /\ list = initialList
  /\ ops = MaxListOps

NextList ==
  \/ \E str \in Searches : SetSearch(str)
  \/ \E category \in Categories : SetCategoryFilter(category)
  \/ \E status \in Statuses : SetStatusFilter(status)
  \/ \E field \in SortFields : handleSort(field)
  \/ NextPage
  \/ PrevPage
  \/ \E page \in 0..(MaxRows + 1) : GoToPage(page)
  \/ \E id \in Ids(products.items) : ToggleStatus(id)
  \/ \E id \in Ids(products.items) : DeleteDispatch(id)
  \/ \E r \in BagToSet(inflight) : DeleteResolve(r)

SpecList == InitList /\ [][NextList]_vars

\* ----------------------------------------------------------------- C25
\* C25: in every state of the list page, filtering the store's products with
\* an empty search, category "All" and status "All" gives the same products in
\* the same order.
C25_FilterIdentity ==
  useFilters(products.items, [search |-> <<>>, category |-> "All", status |-> "All"])
    = products.items

\* The filters are back at their defaults after a gesture, over a list whose
\* first two products differ in status and category.
C25_Witness ==
  /\ ops < MaxListOps
  /\ list.search = <<>>
  /\ list.categoryFilter = "All"
  /\ list.statusFilter = "All"
  /\ Len(products.items) >= 2
  /\ products.items[1].status # products.items[2].status
  /\ products.items[1].category # products.items[2].category

\* ----------------------------------------------------------------- C26
\* The same letter, whatever the case.
SameLetter(a, b) ==
  \/ a = b
  \/ {a, b} \in { {"a", "A"}, {"e", "E"}, {"g", "G"}, {"m", "M"},
                   {"o", "O"}, {"p", "P"}, {"t", "T"}, {"u", "U"} }

OccursIn(name, search) ==
  \E i \in 0..(Len(name) - Len(search)) :
    \A k \in 1..Len(search) : SameLetter(name[i + k], search[k])

\* The options a caller can pass: the page's values, and an option left unset.
FilterInputs ==
  [search : Searches, category : Categories \cup {null}, status : Statuses \cup {null}]

Passes(p, f) ==
  /\ f.search = <<>> \/ OccursIn(p.name, f.search)
  /\ f.category \in {"All", null} \/ p.category = f.category
  /\ f.status \in {"All", null} \/ p.status = f.status

\* C26: in every state of the list page and for every filter, the result is
\* the subsequence, in input order, of the products whose name contains the
\* search (empty, or a substring whatever the case), whose category is the
\* filter's (or the filter is "All" or unset) and whose status is the filter's
\* (or the filter is "All" or unset).
C26_FilterSemantics ==
  \A f \in FilterInputs :
    useFilters(products.items, f) = SelectSeq(products.items, LAMBDA p : Passes(p, f))

\* A search in capitals and a status filter keep one product of three.
C26_Witness ==
  /\ list.search = << "E", "A" >>
  /\ list.statusFilter = "Active"
  /\ Len(products.items) = 3
  /\ Len(useFilters(products.items,
                    [search |-> list.search, category |-> list.categoryFilter,
                     status |-> list.statusFilter])) = 1

\* ----------------------------------------------------------------- C27
\* C27: in every state of the list page, sorting with no field returns the
\* input as it is; sorting by a field puts every product without a value for
\* the field after every product with one, ascending and descending alike.
C27_NullsLast ==
  \A direction \in {"asc", "desc"} :
    /\ useSort(products.items, [field |-> null, direction |-> direction]) = products.items
    /\ \A field \in SortFields :
         LET sorted == useSort(products.items, [field |-> field, direction |-> direction])
         IN /\ Len(sorted) = Len(products.items)
            /\ \A i, j \in 1..Len(sorted) :
                 (field \notin DOMAIN sorted[i] /\ field \in DOMAIN sorted[j]) => j < i

\* The list is sorted by price, descending, and the store holds a product
\* without a price ahead of one with a price.
C27_Witness ==
  /\ list.sortField = "price"
  /\ list.sortDirection = "desc"
  /\ \E i, j \in 1..Len(products.items) :
       /\ i < j
       /\ "price" \notin DOMAIN products.items[i]
       /\ "price" \in DOMAIN products.items[j]

\* ----------------------------------------------------------------- C28
\* The page p brought into [1, total]; page 1 when there is no page at all.
ClampedInto(p, total) ==
  IF total = 0 \/ p < 1 THEN 1 ELSE IF p > total THEN total ELSE p

\* C28: for the N products the list shows and every page size S, totalPages
\* is the least number of pages of S rows that hold N rows; nextPage on the
\* last page and prevPage on page 1 leave the current page as it is, and
\* goToPage(p) sets it to p clamped into [1, totalPages].
C28_PaginationBounds ==
  /\ [](\A S \in 1..(PageSize + 1) :
          LET N == Len(sortedProducts(products.items, list))
              total == totalPages(sortedProducts(products.items, list), S)
          IN /\ total >= 0
             /\ total * S >= N
             /\ total > 0 => (total - 1) * S < N)
  /\ [][/\ (NextPage /\ list.currentPage = Pages)
            => list'.currentPage = list.currentPage
        /\ (PrevPage /\ list.currentPage = 1)
            => list'.currentPage = list.currentPage
        /\ \A page \in 0..(MaxRows + 1) :
             GoToPage(page) => list'.currentPage = ClampedInto(page, Pages)]_vars

\* The list is on its second and last page.
C28_Witness ==
  /\ list.currentPage = 2
  /\ Pages = 2
  /\ ops < MaxListOps

\* ----------------------------------------------------------------- C29
\* C29: in every state of the list page (each reached after the hook has
\* recomputed), the current page lies between 1 and max(1, totalPages).
C29_PageInRange ==
  /\ list.currentPage >= 1
  /\ list.currentPage <= max(1, Pages)

\* ----------------------------------------------------------------- C30
\* The positions of a list whose element has the given status.
WithStatus(items, status) == {i \in 1..Len(items) : items[i].status = status}

\* The totals of the orders at the given positions, added up.
TotalOver(S) ==
  LET total[T \in SUBSET S] ==
        IF T = {} THEN 0
        ELSE LET i == CHOOSE j \in T : TRUE
             IN orders.items[i].total + total[T \ {i}]
  IN total[S]

\* C30: in every store state the Dashboard's statistics are the number of
\* products, the number of Active products, the number of orders, the number
\* of Pending orders, and as revenue the sum of the totals of exactly the
\* Completed orders.
C30_DashboardStats ==
  LET shown == stats(products.items, orders.items)
  IN /\ shown.totalProducts = Len(products.items)
     /\ shown.activeProducts = Cardinality(WithStatus(products.items, "Active"))
     /\ shown.totalOrders = Len(orders.items)
     /\ shown.pendingOrders = Cardinality(WithStatus(orders.items, "Pending"))
     /\ shown.revenue = TotalOver(WithStatus(orders.items, "Completed"))

\* The Dashboard is shown over a store that holds a Completed order, a
\* Cancelled one and an Inactive product.
C30_Witness ==
  /\ view = "Dashboard"
  /\ WithStatus(orders.items, "Completed") # {}
  /\ WithStatus(orders.items, "Cancelled") # {}
  /\ WithStatus(products.items, "Inactive") # {}

\* ----------------------------------------------------------------- C31
\* acc[key] || 0
orZero(acc, key) == IF key \in DOMAIN acc THEN acc[key] ELSE 0

RECURSIVE statusCounts(_, _)
\* orders.reduce((acc, order) => { acc[order.status] = (acc[order.status] || 0) + 1 }, {})
statusCounts(o, i) ==
  IF i = 0 THEN [x \in {} |-> 0]
  ELSE LET acc == statusCounts(o, i - 1)
           status == o[i].status
       IN [x \in DOMAIN acc \cup {status} |->
             IF x = status THEN orZero(acc, status) + 1 ELSE acc[x]]

\* orderStatusData with the zero entries kept (used to test C31).
orderStatusDataWithZeroes(o) ==
  LET counts == statusCounts(o, Len(o))
  IN << [name |-> "Pending", value |-> orZero(counts, "Pending")],
        [name |-> "Completed", value |-> orZero(counts, "Completed")],
        [name |-> "Cancelled", value |-> orZero(counts, "Cancelled")] >>

\* The status distribution series of the Dashboard.
orderStatusData(o) ==
  LET counts == statusCounts(o, Len(o))
  IN SelectSeq(<< [name |-> "Pending", value |-> orZero(counts, "Pending")],
                  [name |-> "Completed", value |-> orZero(counts, "Completed")],
                  [name |-> "Cancelled", value |-> orZero(counts, "Cancelled")] >>,
               LAMBDA item : item.value > 0)

\* The place of a status in the order Pending, Completed, Cancelled.
Rank(status) ==
  CASE status = "Pending" -> 1 [] status = "Completed" -> 2 [] OTHER -> 3

RECURSIVE SumOfValues(_, _)
\* The values of the first i entries of a series, added up.
SumOfValues(series, i) ==
  IF i = 0 THEN 0 ELSE SumOfValues(series, i - 1) + series[i].value

\* C31: the status distribution has an entry for Pending, Completed or
\* Cancelled exactly when some order has that status, each entry's value is
\* the number of orders with its status, the entries come in the order
\* Pending, Completed, Cancelled, and the values add up to the number of
\* orders.
C31_StatusDistribution ==
  LET series == orderStatusData(orders.items)
  IN /\ \A status \in {"Pending", "Completed", "Cancelled"} :
          (\E k \in 1..Len(series) : series[k].name = status)
            <=> WithStatus(orders.items, status) # {}
     /\ \A k \in 1..Len(series) :
          /\ series[k].name \in {"Pending", "Completed", "Cancelled"}
          /\ series[k].value = Cardinality(WithStatus(orders.items, series[k].name))
     /\ \A k, l \in 1..Len(series) :
          k < l => Rank(series[k].name) < Rank(series[l].name)
     /\ SumOfValues(series, Len(series)) = Len(orders.items)

\* The Dashboard is shown over orders of which some are Completed, some
\* Cancelled and none Pending.
C31_Witness ==
  /\ view = "Dashboard"
  /\ WithStatus(orders.items, "Completed") # {}
  /\ WithStatus(orders.items, "Cancelled") # {}
  /\ WithStatus(orders.items, "Pending") = {}

\* ----------------------------------------------------------------- C32
\* How many times a row occurs in a list.
Occurrences(row, items) == Cardinality({i \in 1..Len(items) : items[i] = row})

\* The list read from its last element to its first.
Reversed(items) == [i \in 1..Len(items) |-> items[Len(items) + 1 - i]]

\* Every product has a value for the field, and no two products have the
\* same value.
DistinctValues(items, field) ==
  /\ \A i \in 1..Len(items) : field \in DOMAIN items[i]
  /\ \A i, j \in 1..Len(items) : i # j => items[i][field] # items[j][field]

\* Every product has a value for the field, and no two products have values
\* that the comparator reads as the same: two date strings of one instant are
\* the same to it.
DistinctAsCompared(items, field) ==
  /\ \A i \in 1..Len(items) : field \in DOMAIN items[i]
  /\ \A i, j \in 1..Len(items) :
       i # j => IF field \in DateFields
                THEN getTime(items[i][field]) # getTime(items[j][field])
                ELSE items[i][field] # items[j][field]

\* The sorted list holds the products of the store, each as often as the
\* store does, for every field and direction; and where the values are
\* distinct (as the comparator reads them, or else as values), the descending
\* list is the ascending list reversed.
SortedBothWays(asCompared) ==
  \A field \in SortFields :
    LET asc == useSort(products.items, [field |-> field, direction |-> "asc"])
        desc == useSort(products.items, [field |-> field, direction |-> "desc"])
        distinct == IF asCompared THEN DistinctAsCompared(products.items, field)
                    ELSE DistinctValues(products.items, field)
    IN /\ \A sorted \in {asc, desc} :
            /\ Len(sorted) = Len(products.items)
            /\ \A i \in 1..Len(sorted) :
                 Occurrences(sorted[i], sorted) = Occurrences(sorted[i], products.items)
       /\ distinct => desc = Reversed(asc)

\* C32 as stated: the sorted output is a permutation of the input; when all
\* products have pairwise distinct non-null values of the sort field, the
\* descending output is the exact reverse of the ascending output.
C32_AsStated == SortedBothWays(FALSE)

\* C32, amended: the sorted output is a permutation of the input, a click on
\* a sort button leaves the store's list as it is, and the descending output
\* is the exact reverse of the ascending output when the values of the sort
\* field are non-null and pairwise distinct as the comparator reads them,
\* date strings by their instants.
C32_SortDirection ==
  /\ [](SortedBothWays(TRUE))
  /\ [][\A field \in SortFields :
          handleSort(field) => products'.items = products.items]_vars

\* The list is sorted by updatedAt, descending, over at least two products of
\* different instants that the store holds in ascending order.
C32_Witness ==
  /\ list.sortField = "updatedAt"
  /\ list.sortDirection = "desc"
  /\ Len(products.items) >= 2
  /\ DistinctAsCompared(products.items, "updatedAt")
  /\ getTime(products.items[1].updatedAt) < getTime(products.items[2].updatedAt)

\* ----------------------------------------------------------------- C33
RECURSIVE PagesJoined(_, _, _)
\* The pages 1..p of the data, one after the other.
PagesJoined(data, p, S) ==
  IF p = 0 THEN <<>>
  ELSE PagesJoined(data, p - 1, S) \o paginatedData(data, p, S)

\* C33: for the products the list shows, every page size S and every page p
\* in [1, totalPages], paginatedData is the items at the (0-based) indices
\* (p-1)*S up to but excluding min(p*S, N); the pages 1..totalPages one after
\* the other are the whole collection; hasNextPage holds exactly when the
\* page is before the last and hasPrevPage exactly when it is after the first.
C33_PageSlicing ==
  \A S \in 1..(PageSize + 1) :
    LET data == sortedProducts(products.items, list)
        N == Len(data)
        total == totalPages(data, S)
    IN /\ \A p \in 1..total :
            LET page == paginatedData(data, p, S)
                first == (p - 1) * S
                end == IF p * S < N THEN p * S ELSE N
            IN /\ Len(page) = end - first
               /\ \A k \in 1..Len(page) : page[k] = data[first + k]
               /\ hasNextPage(p, total) <=> p < total
               /\ hasPrevPage(p) <=> p > 1
       /\ PagesJoined(data, total, S) = data
       /\ hasNextPage(list.currentPage, Pages) <=> list.currentPage < Pages
       /\ hasPrevPage(list.currentPage) <=> list.currentPage > 1

\* The list shows its second and last page, which holds a single product.
C33_Witness ==
  /\ list.currentPage = 2
  /\ Pages = 2
  /\ Len(paginatedData(sortedProducts(products.items, list), list.currentPage, PageSize)) = 1
  /\ ~hasNextPage(list.currentPage, Pages)
  /\ hasPrevPage(list.currentPage)

\* ----------------------------------------------------------------- C34
\* C34: when a createOrder resolves, the order it appends has status Pending,
\* at least one line, a quantity of at least 1 on every line, a customer name
\* that is not empty after trimming, and a total above zero.
C34_OrderAtCreation ==
  [][\A r \in BagToSet(inflight) :
       (r.kind = "createOrder" /\ Resolves(r)) =>
         /\ Len(orders'.items) = Len(orders.items) + 1
         /\ LET appended == orders'.items[Len(orders'.items)]
            IN /\ appended.status = "Pending"
               /\ Len(appended.items) >= 1
               /\ \A k \in 1..Len(appended.items) :
                    appended.items[k].quantity \in Nat \ {0}
               /\ trim(appended.customerName) # ""
               /\ appended.total > 0]_vars

\* The gestures are used up, and the last of the orders was placed in this
\* session: it is Pending and has one line of one unit.
C34_Witness ==
  /\ ops = 0
  /\ Len(orders.items) >= 1
  /\ LET appended == orders.items[Len(orders.items)]
     IN /\ appended.id > 100
        /\ appended.status = "Pending"
        /\ Len(appended.items) = 1
        /\ appended.items[1].quantity = 1

\* ----------------------------------------------------------------- C35
\* The positions of the cart's lines for a product id.
LinesOf(c, id) == {k \in 1..Len(c) : c[k].product.id = id}

\* The lines of the cart for other products than id, in their order.
OtherLines(c, id) == SelectSeq(c, LAMBDA line : line.product.id # id)

\* C35: the cart holds at most one line per product id and every line has a
\* quantity of at least 1; addToCart of a product in the cart raises that
\* line's quantity by exactly 1 and otherwise appends a line of quantity 1;
\* updateQuantity with a quantity <= 0 removes the line, as removeFromCart
\* does; each operation keeps the lines of the other products as they are.
C35_CartInvariant ==
  /\ [](/\ \A k, l \in 1..Len(cart) : k # l => cart[k].product.id # cart[l].product.id
        /\ \A k \in 1..Len(cart) : cart[k].quantity >= 1
        /\ \A k \in 1..Len(cart), quantity \in -1..0 :
             updateQuantity(cart, cart[k].product.id, quantity)
               = OtherLines(cart, cart[k].product.id))
  /\ [][/\ \A i \in 1..Len(activeProducts) :
             AddToCart(i) =>
               LET id == activeProducts[i].id
               IN /\ OtherLines(cart', id) = OtherLines(cart, id)
                  /\ IF LinesOf(cart, id) # {}
                     THEN /\ Len(cart') = Len(cart)
                          /\ \A k \in LinesOf(cart, id) :
                               /\ cart'[k].product = cart[k].product
                               /\ cart'[k].quantity = cart[k].quantity + 1
                     ELSE /\ Len(cart') = Len(cart) + 1
                          /\ SubSeq(cart', 1, Len(cart)) = cart
                          /\ cart'[Len(cart')].product.id = id
                          /\ cart'[Len(cart')].quantity = 1
        /\ \A k \in 1..Len(cart), delta \in {-1, 1} :
             UpdateQuantity(k, delta) =>
               LET id == cart[k].product.id
               IN /\ OtherLines(cart', id) = OtherLines(cart, id)
                  /\ IF cart[k].quantity + delta <= 0
                     THEN LinesOf(cart', id) = {}
                     ELSE /\ Len(cart') = Len(cart)
                          /\ cart'[k].product = cart[k].product
                          /\ cart'[k].quantity = cart[k].quantity + delta
        /\ \A k \in 1..Len(cart) :
             RemoveFromCart(k) =>
               /\ cart' = OtherLines(cart, cart[k].product.id)
               /\ LinesOf(cart', cart[k].product.id) = {}]_vars

\* The cart holds two lines, the first with two units.
C35_Witness ==
  /\ view = "Orders"
  /\ Len(cart) = 2
  /\ cart[1].quantity = 2
  /\ cart[2].quantity = 1

\* ------------------------------------------- a reload during the first load
\* A first visit with nothing persisted, in which the operator only opens
\* pages and reloads: the store changes through the fetches alone.
NextReload ==
  \/ Tick
  \/ \E v \in Views : Mount(v)
  \/ Restart
  \/ FetchProductsFulfilled
  \/ FetchOrdersFulfilled

SpecReload == Init /\ [][NextReload]_vars

\* ----------------------------------------------------------------- C36
\* C36: when no page is mounted and the store holds neither products nor
\* orders (the process has just started: for the first time, or again after a
\* reload that came before either fetch of the first load was fulfilled), the
\* page that mounts dispatches fetchProducts, and fetchOrders as well if it
\* shows orders.
C36_RecoversInterruptedLoad ==
  [][(/\ view = "none"
      /\ view' # "none"
      /\ Len(products.items) = 0
      /\ Len(orders.items) = 0)
     => /\ BagIn([kind |-> "fetchProducts"], inflight')
        /\ FetchesOrders(view') => BagIn([kind |-> "fetchOrders"], inflight')]_vars

\* ------------------------------------------------ a first visit, page by page
\* A first visit with nothing persisted and no reload, in which the operator
\* opens pages in any order and fills the cart: the store changes through the
\* fetches alone.
NextVisit ==
  \/ Tick
  \/ \E v \in Views : Mount(v)
  \/ FetchProductsFulfilled
  \/ FetchOrdersFulfilled
  \/ \E i \in 1..Len(products.items) : AddToCart(i)
  \/ \E k \in 1..Len(cart), delta \in {-1, 1} : UpdateQuantity(k, delta)
  \/ \E k \in 1..Len(cart) : RemoveFromCart(k)
  \/ \E name \in CustomerNames : SetCustomerName(name)

SpecVisit == Init /\ [][NextVisit]_vars

\* ----------------------------------------------------------------- C37
\* C37: on a first visit, whichever pages were opened before, when the Orders
\* page or the Dashboard is mounted and no fetch is in flight, orders.items is
\* the seed orders and products.items the seed products.
C37_EverythingLoaded ==
  (/\ view \in {"Orders", "Dashboard"}
   /\ FetchCount(inflight) = 0)
  => /\ orders.items = SeedOrders
     /\ products.items = SeedProducts

\* ----------------------------------------------------------------- C38
\* C38: in every state, a slice's loading flag is true exactly when a fetch of
\* its collection is in flight, two fetches of one collection included.
C38_LoadingTracksFetches ==
  /\ products.loading <=> CopiesIn([kind |-> "fetchProducts"], inflight) > 0
  /\ orders.loading <=> CopiesIn([kind |-> "fetchOrders"], inflight) > 0

\* ----------------------------------------------------------------- C39
\* The order carries the cart line: the same product in the same quantity.
Ordered(line, order) ==
  \E k \in 1..Len(order.items) :
    /\ order.items[k].productId = line.product.id
    /\ order.items[k].quantity = line.quantity

\* The mounted Orders page has no two createOrder requests for one and the
\* same order in flight.
OneOrderPerIntent ==
  \A r \in BagToSet(inflight) :
    (r.kind = "createOrder" /\ r.attached) => CopiesIn(r, inflight) <= 1

\* When a createOrder resolves, every line the cart holds at that moment is a
\* line of the created order or is in the cart afterwards.
UnorderedLinesStay ==
  \A r \in BagToSet(inflight) :
    (r.kind = "createOrder" /\ Resolves(r)) =>
      \A k \in 1..Len(cart) :
        \/ Ordered(cart[k], r.order)
        \/ \E l \in 1..Len(cart') : cart'[l] = cart[k]

\* C39: a second click on Place Order before the first request resolves
\* creates no second order, and a placement takes out of the cart only what
\* was ordered: a line added or changed while the createOrder was in flight
\* is in the created order or still in the cart when the placement completes.
C39_OnlyTheOrderedLeavesTheCart ==
  /\ [](OneOrderPerIntent)
  /\ [][UnorderedLinesStay]_vars

====
